---- MODULE Spec2Model ----
(***************************************************************************)
(* A model of the renderers and of the crawler of the repository:          *)
(*   yaml2html.py     HTMLBuilder (a context stack and a list of markup    *)
(*                    pieces) driven by the yaml2html generator,           *)
(*   yaml_colorize.py tokenize and colorize (spans spliced back to front), *)
(*   yaml_tree.py     visit, html_element, html_list, html_map over a tree *)
(*                    of nodes, and                                        *)
(*   url_collector.py the write_one tasks that bulk_crawl_and_write        *)
(*                    gathers, each appending its rows to one file.        *)
(*                                                                         *)
(* A Python str is a sequence of atoms.  An atom is one character of text, *)
(* or one fixed literal of the program: a tag such as "<ul>", or an ANSI   *)
(* escape sequence such as "ESC[35m" (written \033[35m by termcolor).      *)
(***************************************************************************)
EXTENDS Integers, Sequences, FiniteSets, TLC

VARIABLES
    strict,      \* TRUE: the event source is yaml.parse (well-nested events)
    pstate,      \* position of the event source in the stream
    nesting,     \* the event source's open containers: [kind, n children begun,
                 \*   enter: the child tag emitted when the container opened]
    events,      \* node events of the current document handed to process so far
    docs,        \* the node events of each finished document, in order
    yielded,     \* the strings yaml2html has yielded, in order
    _context,    \* HTMLBuilder._context
    _html,       \* HTMLBuilder._html
    raised,      \* an exception left process (IndexError of list.pop)
    pcC,         \* position of colorize: "idle", "tokenize", "splice", "done"
    orig,        \* the text colorize was called with
    text,        \* colorize's local variable text
    tokens,      \* what yaml.scan delivers, in delivery order
    ti,          \* number of tokens tokenize has consumed
    last_token,  \* tokenize's local variable last_token
    spans,       \* list(tokenize(text)): the (start, end, token) triples yielded
    queue,       \* the part of reversed(spans) colorize has still to splice
    pcT,         \* position of yaml_tree.parse: "idle", "composed", "done"
    node,        \* the root node yaml.compose returned
    rendered,    \* the string visit returned
    main,        \* position of url_collector.main and bulk_crawl_and_write
    task,        \* position of the write_one task of each URL
    page,        \* the hrefs of the HTML fetched for each URL, in page order
    res,         \* write_one's res for each URL: the rows it has still to write
    file         \* the lines of the output file

htmlVars == <<strict, pstate, nesting, events, docs, yielded, _context, _html, raised>>
colorVars == <<pcC, orig, text, tokens, ti, last_token, spans, queue>>
treeVars == <<pcT, node, rendered>>
crawlVars == <<main, task, page, res, file>>
vars == <<strict, pstate, nesting, events, docs, yielded, _context, _html, raised,
          pcC, orig, text, tokens, ti, last_token, spans, queue,
          pcT, node, rendered, main, task, page, res, file>>

\* yaml_tree.parse has not been called
IdleTree == pcT = "idle" /\ node = <<>> /\ rendered = <<>>

\* url_collector.main has not been called
IdleCrawl == main = "idle" /\ task = <<>> /\ page = <<>> /\ res = <<>> /\ file = <<>>

(***************************************************************************)
(* Bounds of the model.                                                    *)
(***************************************************************************)
MaxEvents == 7      \* node events per stream
MaxAnyEvents == 5   \* node events per stream when the events come in any order
MaxDocs == 2        \* documents per stream
MaxDepth == 3       \* nesting depth of containers
MaxLen == 3         \* characters of a text given to colorize
MaxTokens == 3      \* tokens yaml.scan delivers for one text
MaxChildren == 2    \* items of the root sequence, pairs of the root mapping
MaxLinks == 2       \* href attributes in one fetched page

Values == {<<"a">>, <<"1">>}     \* scalar values of the events
Alphabet == <<"a", "b", "c", "d", "e", "f">>   \* the characters of a text, in order

(***************************************************************************)
(* Sequence helpers.                                                       *)
(***************************************************************************)
Last(s) == s[Len(s)]
Front(s) == SubSeq(s, 1, Len(s) - 1)

RECURSIVE Flatten(_)
Flatten(ss) == IF ss = <<>> THEN <<>> ELSE Head(ss) \o Flatten(Tail(ss))

RECURSIVE Reverse(_)
Reverse(s) == IF s = <<>> THEN <<>> ELSE Append(Reverse(Tail(s)), Head(s))

(***************************************************************************)
(* termcolor.colored(text, color, attrs=attrs): the colour code, then each *)
(* attribute code in front of it, then the reset code at the end.          *)
(***************************************************************************)
COLORS == [magenta |-> "ESC[35m", blue |-> "ESC[34m", cyan |-> "ESC[36m", red |-> "ESC[31m"]
ATTRIBUTES == [blink |-> "ESC[5m", bold |-> "ESC[1m"]
RESET == "ESC[0m"
EscAtoms == {"ESC[35m", "ESC[34m", "ESC[36m", "ESC[31m", "ESC[5m", "ESC[1m", "ESC[0m"}

RECURSIVE WrapAttrs(_, _)
WrapAttrs(s, attrs) ==
    IF attrs = <<>> THEN s
    ELSE WrapAttrs(<<ATTRIBUTES[Head(attrs)]>> \o s, Tail(attrs))

colored(s, color, attrs) == WrapAttrs(<<COLORS[color]>> \o s, attrs) \o <<RESET>>

(***************************************************************************)
(* yaml2html.py                                                            *)
(***************************************************************************)
OPEN_TAG_EVENTS == {"ScalarEvent", "SequenceStartEvent", "MappingStartEvent"}
CLOSE_TAG_EVENTS == {"ScalarEvent", "SequenceEndEvent", "MappingEndEvent"}

Event(type, value) == [type |-> type, value |-> value]

\* The two kinds of entry of HTMLBuilder._context: the string "list", or an int.
ListFrame == [tag |-> "list", n |-> 0]
IntFrame(k) == [tag |-> "int", n |-> k]

\* HTMLBuilder(): the state after __init__.
HTMLBuilder == [_context |-> <<>>, _html |-> <<>>, raised |-> FALSE]

_color(tag) == colored(<<tag>>, "magenta", <<"blink">>)

\* The html property: "".join(self._html).
html(b) == Flatten(b._html)

_handle_tag_AdvanceOnOpen(b, close) ==
    IF Len(b._context) > 0
    THEN IF Last(b._context).tag = "list"
         THEN [b EXCEPT !._html = Append(@, _color(IF close THEN "</li>" ELSE "<li>"))]
         ELSE LET h == IF Last(b._context).n % 2 = 0
                       THEN [b EXCEPT !._html =
                                 Append(@, _color(IF close THEN "</dt>" ELSE "<dt>"))]
                       ELSE [b EXCEPT !._html =
                                 Append(@, _color(IF close THEN "</dd>" ELSE "<dd>"))]
              IN  [h EXCEPT !._context[Len(b._context)] = IntFrame(@.n + 1)]
    ELSE b

_handle_tag(b, close) ==
    IF Len(b._context) > 0
    THEN IF Last(b._context).tag = "list"
         THEN [b EXCEPT !._html = Append(@, _color(IF close THEN "</li>" ELSE "<li>"))]
         ELSE LET h == IF Last(b._context).n % 2 = 0
                       THEN [b EXCEPT !._html =
                                 Append(@, _color(IF close THEN "</dt>" ELSE "<dt>"))]
                       ELSE [b EXCEPT !._html =
                                 Append(@, _color(IF close THEN "</dd>" ELSE "<dd>"))]
              IN  IF close
                  THEN [h EXCEPT !._context[Len(b._context)] = IntFrame(@.n + 1)]
                  ELSE h
    ELSE b

\* list.pop(): IndexError on an empty list.
pop(b) ==
    IF Len(b._context) = 0
    THEN [b EXCEPT !.raised = TRUE]
    ELSE [b EXCEPT !._context = Front(@)]

\* process, lines 96-105.
processOpen(b, event) ==
    IF event.type \in OPEN_TAG_EVENTS
    THEN LET h == _handle_tag(b, FALSE)
         IN  CASE event.type = "ScalarEvent" ->
                    [h EXCEPT !._html = Append(@, event.value)]
               [] event.type = "SequenceStartEvent" ->
                    [h EXCEPT !._html = Append(@, _color("<ul>")),
                              !._context = Append(@, ListFrame)]
               [] event.type = "MappingStartEvent" ->
                    [h EXCEPT !._html = Append(@, _color("<dl>")),
                              !._context = Append(@, IntFrame(0))]
    ELSE b

processClose_NoPop(b, event) ==
    IF event.type \in CLOSE_TAG_EVENTS
    THEN LET h == _handle_tag(b, TRUE)
         IN  CASE event.type = "ScalarEvent" -> h
               [] event.type = "SequenceEndEvent" ->
                    pop([h EXCEPT !._html = Append(@, _color("</ul>"))])
               [] event.type = "MappingEndEvent" ->
                    [h EXCEPT !._html = Append(@, _color("</dl>"))]
    ELSE b

processClose_WrongMarker(b, event) ==
    IF event.type \in CLOSE_TAG_EVENTS
    THEN LET h == _handle_tag(b, TRUE)
         IN  CASE event.type = "ScalarEvent" -> h
               [] event.type = "SequenceEndEvent" ->
                    pop([h EXCEPT !._html = Append(@, _color("</ul>"))])
               [] event.type = "MappingEndEvent" ->
                    pop([h EXCEPT !._html = Append(@, _color("</ul>"))])
    ELSE b

processClose_PopFirst(b, event) ==
    IF event.type \in CLOSE_TAG_EVENTS
    THEN CASE event.type = "ScalarEvent" -> _handle_tag(b, TRUE)
           [] event.type = "SequenceEndEvent" ->
                LET h == pop([b EXCEPT !._html = Append(@, _color("</ul>"))])
                IN  _handle_tag(h, TRUE)
           [] event.type = "MappingEndEvent" ->
                LET h == pop([b EXCEPT !._html = Append(@, _color("</dl>"))])
                IN  _handle_tag(h, TRUE)
    ELSE b

\* process, lines 107-114.
processClose(b, event) ==
    IF event.type \in CLOSE_TAG_EVENTS
    THEN LET h == _handle_tag(b, TRUE)
         IN  CASE event.type = "ScalarEvent" -> h
               [] event.type = "SequenceEndEvent" ->
                    pop([h EXCEPT !._html = Append(@, _color("</ul>"))])
               [] event.type = "MappingEndEvent" ->
                    pop([h EXCEPT !._html = Append(@, _color("</dl>"))])
    ELSE b

\* HTMLBuilder.process(event): both if statements, in order.
process(b, event) == processClose(processOpen(b, event), event)

\* The builder the variables hold.
builder == [_context |-> _context, _html |-> _html, raised |-> raised]

\* process from a fresh builder over a whole list of events.
RECURSIVE processAll(_, _)
processAll(b, evs) ==
    IF evs = <<>> \/ b.raised THEN b
    ELSE processAll(process(b, Head(evs)), Tail(evs))

(***************************************************************************)
(* The event source.  With strict it is yaml.parse, which emits            *)
(* StreamStart, then for each document DocumentStart, the events of one    *)
(* node, DocumentEnd, and at last StreamEnd; a mapping has its children in *)
(* pairs.  Without strict any node event may follow any other inside a     *)
(* document (process called directly with events in any order).            *)
(***************************************************************************)
NodeCount == Len(events) + Len(Flatten(docs))

\* a node may begin here
Room == NodeCount < (IF strict THEN MaxEvents ELSE MaxAnyEvents)

\* the child tags among the pieces process appends for the event
Entering(event) ==
    SelectSeq(Flatten(SubSeq(process(builder, event)._html, Len(_html) + 1,
                             Len(process(builder, event)._html))),
              LAMBDA a : a \in {"<li>", "<dt>", "<dd>"})

CanBegin ==
    /\ pstate = "doc"
    /\ Room
    /\ strict => \/ nesting = <<>> /\ events = <<>>
                 \/ nesting # <<>>

CanEnd(kind) ==
    /\ pstate = "doc"
    /\ Room
    /\ strict => /\ nesting # <<>>
                 /\ Last(nesting).kind = kind
                 /\ kind = "map" => Last(nesting).n % 2 = 0

\* the event source's stack after a child of the top container has begun
ChildBegun(ns) ==
    IF ns = <<>> THEN ns ELSE [ns EXCEPT ![Len(ns)].n = @ + 1]

\* the event source's stack after an end event of the kind
Ended(ns, kind) ==
    IF ns # <<>> /\ Last(ns).kind = kind THEN Front(ns) ELSE ns

LoopBody_NoReset(event) ==
    LET b == process(builder, event)
    IN  /\ _context' = b._context
        /\ _html' = b._html
        /\ raised' = b.raised
        /\ IF ~b.raised /\ event.type = "DocumentEndEvent"
           THEN yielded' = Append(yielded, html(b))
           ELSE UNCHANGED yielded

\* The body of yaml2html's loop for one event, lines 138-141.
LoopBody(event) ==
    LET b == process(builder, event)
    IN  IF b.raised
        THEN /\ _context' = b._context
             /\ _html' = b._html
             /\ raised' = TRUE
             /\ UNCHANGED yielded
        ELSE IF event.type = "DocumentEndEvent"
             THEN /\ yielded' = Append(yielded, html(b))
                  /\ _context' = HTMLBuilder._context
                  /\ _html' = HTMLBuilder._html
                  /\ raised' = HTMLBuilder.raised
             ELSE /\ _context' = b._context
                  /\ _html' = b._html
                  /\ raised' = b.raised
                  /\ UNCHANGED yielded

Running == pcC = "idle" /\ ~raised

StreamStart ==
    /\ Running
    /\ pstate = "init"
    /\ LoopBody(Event("StreamStartEvent", <<>>))
    /\ pstate' = "stream"
    /\ UNCHANGED <<strict, nesting, events, docs>>
    /\ UNCHANGED <<colorVars, treeVars, crawlVars>>

DocumentStart ==
    /\ Running
    /\ pstate = "stream"
    /\ Len(docs) < MaxDocs
    /\ LoopBody(Event("DocumentStartEvent", <<>>))
    /\ pstate' = "doc"
    /\ UNCHANGED <<strict, nesting, events, docs>>
    /\ UNCHANGED <<colorVars, treeVars, crawlVars>>

Scalar(v) ==
    /\ Running
    /\ CanBegin
    /\ LoopBody(Event("ScalarEvent", v))
    /\ events' = Append(events, Event("ScalarEvent", v))
    /\ nesting' = ChildBegun(nesting)
    /\ UNCHANGED <<strict, pstate, docs>>
    /\ UNCHANGED <<colorVars, treeVars, crawlVars>>

SequenceStart ==
    /\ Running
    /\ CanBegin
    /\ Len(nesting) < MaxDepth
    /\ LoopBody(Event("SequenceStartEvent", <<>>))
    /\ events' = Append(events, Event("SequenceStartEvent", <<>>))
    /\ nesting' = Append(ChildBegun(nesting), [kind |-> "seq", n |-> 0,
                           enter |-> Entering(Event("SequenceStartEvent", <<>>))])
    /\ UNCHANGED <<strict, pstate, docs>>
    /\ UNCHANGED <<colorVars, treeVars, crawlVars>>

MappingStart ==
    /\ Running
    /\ CanBegin
    /\ Len(nesting) < MaxDepth
    /\ LoopBody(Event("MappingStartEvent", <<>>))
    /\ events' = Append(events, Event("MappingStartEvent", <<>>))
    /\ nesting' = Append(ChildBegun(nesting), [kind |-> "map", n |-> 0,
                           enter |-> Entering(Event("MappingStartEvent", <<>>))])
    /\ UNCHANGED <<strict, pstate, docs>>
    /\ UNCHANGED <<colorVars, treeVars, crawlVars>>

SequenceEnd ==
    /\ Running
    /\ CanEnd("seq")
    /\ LoopBody(Event("SequenceEndEvent", <<>>))
    /\ events' = Append(events, Event("SequenceEndEvent", <<>>))
    /\ nesting' = Ended(nesting, "seq")
    /\ UNCHANGED <<strict, pstate, docs>>
    /\ UNCHANGED <<colorVars, treeVars, crawlVars>>

MappingEnd ==
    /\ Running
    /\ CanEnd("map")
    /\ LoopBody(Event("MappingEndEvent", <<>>))
    /\ events' = Append(events, Event("MappingEndEvent", <<>>))
    /\ nesting' = Ended(nesting, "map")
    /\ UNCHANGED <<strict, pstate, docs>>
    /\ UNCHANGED <<colorVars, treeVars, crawlVars>>

DocumentEnd ==
    /\ Running
    /\ pstate = "doc"
    /\ strict => nesting = <<>> /\ events # <<>>
    /\ LoopBody(Event("DocumentEndEvent", <<>>))
    /\ docs' = Append(docs, events)
    /\ events' = <<>>
    /\ nesting' = <<>>
    /\ pstate' = "stream"
    /\ UNCHANGED strict
    /\ UNCHANGED <<colorVars, treeVars, crawlVars>>

StreamEnd ==
    /\ Running
    /\ pstate = "stream"
    /\ LoopBody(Event("StreamEndEvent", <<>>))
    /\ pstate' = "end"
    /\ UNCHANGED <<strict, nesting, events, docs>>
    /\ UNCHANGED <<colorVars, treeVars, crawlVars>>

InitHtml ==
    /\ pstate = "init"
    /\ nesting = <<>>
    /\ events = <<>>
    /\ docs = <<>>
    /\ yielded = <<>>
    /\ _context = HTMLBuilder._context
    /\ _html = HTMLBuilder._html
    /\ raised = HTMLBuilder.raised

IdleColor ==
    /\ pcC = "idle"
    /\ orig = <<>>
    /\ text = <<>>
    /\ tokens = <<>>
    /\ ti = 0
    /\ last_token = "ValueToken"
    /\ spans = <<>>
    /\ queue = <<>>

Init == strict = TRUE /\ InitHtml /\ IdleColor /\ IdleTree /\ IdleCrawl

InitAnyEvents == strict = FALSE /\ InitHtml /\ IdleColor /\ IdleTree /\ IdleCrawl

Next ==
    \/ StreamStart
    \/ DocumentStart
    \/ \E v \in Values : Scalar(v)
    \/ SequenceStart
    \/ MappingStart
    \/ SequenceEnd
    \/ MappingEnd
    \/ DocumentEnd
    \/ StreamEnd

Spec == Init /\ [][Next]_vars

SpecAnyEvents == InitAnyEvents /\ [][Next]_vars

(***************************************************************************)
(* yaml.parse also emits an AliasEvent for an alias node, as a child of a  *)
(* sequence or of a mapping.  It is none of OPEN_TAG_EVENTS,               *)
(* CLOSE_TAG_EVENTS or DocumentEndEvent.                                   *)
(***************************************************************************)
Alias ==
    /\ Running
    /\ CanBegin
    /\ strict => nesting # <<>>
    /\ LoopBody(Event("AliasEvent", <<>>))
    /\ events' = Append(events, Event("AliasEvent", <<>>))
    /\ nesting' = ChildBegun(nesting)
    /\ UNCHANGED <<strict, pstate, docs>>
    /\ UNCHANGED <<colorVars, treeVars, crawlVars>>

NextAliases == Next \/ Alias

SpecAliases == Init /\ [][NextAliases]_vars

(***************************************************************************)
(* yaml_colorize.py                                                        *)
(***************************************************************************)
Min(a, b) == IF a < b THEN a ELSE b

\* Python's s[a:b] for 0 <= a, 0 <= b (indices past the end are clamped).
Slice(s, a, b) == SubSeq(s, Min(a, Len(s)) + 1, Min(b, Len(s)))

\* the dict colors of colorize, by token type
colors == [KeyToken |-> "blue", ValueToken |-> "cyan", TagToken |-> "red"]

\* attrs = ["bold"] if isinstance(token, yaml.KeyToken) else None
attrsOf(token) == IF token = "KeyToken" THEN <<"bold">> ELSE <<>>

reversed_Forgotten(l) == l

\* reversed(list(...)), line 77
reversed(l) == Reverse(l)

splice_DropsBoundary(t, span) ==
    Slice(t, 0, span.start)
    \o colored(Slice(t, span.start, span.end), colors[span.token], attrsOf(span.token))
    \o Slice(t, span.end + 1, Len(t))

\* the body of colorize's loop, lines 78-82
splice(t, span) ==
    Slice(t, 0, span.start)
    \o colored(Slice(t, span.start, span.end), colors[span.token], attrsOf(span.token))
    \o Slice(t, span.end, Len(t))

(***************************************************************************)
(* What yaml.scan delivers: tokens in source order.  A TagToken or a       *)
(* ScalarToken covers a non-empty span [start, end) of the text, the spans *)
(* do not overlap and do not decrease.  The marks of the other tokens are  *)
(* read by tokenize and never used, and are left out (0).                  *)
(***************************************************************************)
SpanKinds == {"TagToken", "ScalarToken"}
MarkKinds == {"KeyToken", "ValueToken", "BlockMappingStartToken"}

TokensOf(n) ==
    UNION {{[kind |-> k, start |-> a, end |-> b] : k \in SpanKinds, b \in (a + 1)..n} :
              a \in 0..n}
    \cup {[kind |-> k, start |-> 0, end |-> 0] : k \in MarkKinds}

Spanned(l) == SelectSeq(l, LAMBDA t : t.kind \in SpanKinds)

NonOverlapping(l) ==
    \A i, j \in DOMAIN l :
        (i # j /\ l[i].kind \in SpanKinds /\ l[j].kind \in SpanKinds)
            => (l[i].end <= l[j].start \/ l[j].end <= l[i].start)

SourceOrder(l) ==
    \A i \in 1..(Len(Spanned(l)) - 1) : Spanned(l)[i].end <= Spanned(l)[i + 1].start

\* the lists of k tokens yaml.scan can deliver for a text of n characters
RECURSIVE ScansOfLen(_, _)
ScansOfLen(n, k) ==
    IF k = 0 THEN {<<>>}
    ELSE {l \in {Append(h, t) : h \in ScansOfLen(n, k - 1), t \in TokensOf(n)} :
             SourceOrder(l)}

Scans(n) == UNION {ScansOfLen(n, k) : k \in 0..MaxTokens}

\* the same tokens, delivered in any order
RECURSIVE AnyOrderOfLen(_, _)
AnyOrderOfLen(n, k) ==
    IF k = 0 THEN {<<>>}
    ELSE {l \in {Append(h, t) : h \in AnyOrderOfLen(n, k - 1), t \in TokensOf(n)} :
             NonOverlapping(l)}

ScansAnyOrder(n) == UNION {AnyOrderOfLen(n, k) : k \in 0..MaxTokens}

Texts == {SubSeq(Alphabet, 1, n) : n \in 0..MaxLen}

Tokenizing == pcC = "tokenize" /\ ti < Len(tokens)

TokenizeTag_Carries ==
    /\ Tokenizing
    /\ tokens[ti + 1].kind = "TagToken"
    /\ spans' = Append(spans, [start |-> tokens[ti + 1].start,
                               end |-> tokens[ti + 1].end,
                               token |-> "TagToken"])
    /\ last_token' = "TagToken"
    /\ ti' = ti + 1
    /\ UNCHANGED <<pcC, orig, text, tokens, queue>>
    /\ UNCHANGED <<htmlVars, treeVars, crawlVars>>

\* tokenize, lines 46-47
TokenizeTag ==
    /\ Tokenizing
    /\ tokens[ti + 1].kind = "TagToken"
    /\ spans' = Append(spans, [start |-> tokens[ti + 1].start,
                               end |-> tokens[ti + 1].end,
                               token |-> "TagToken"])
    /\ ti' = ti + 1
    /\ UNCHANGED <<pcC, orig, text, tokens, last_token, queue>>
    /\ UNCHANGED <<htmlVars, treeVars, crawlVars>>

\* tokenize, lines 48-49
TokenizeScalar ==
    /\ Tokenizing
    /\ tokens[ti + 1].kind = "ScalarToken"
    /\ spans' = Append(spans, [start |-> tokens[ti + 1].start,
                               end |-> tokens[ti + 1].end,
                               token |-> last_token])
    /\ ti' = ti + 1
    /\ UNCHANGED <<pcC, orig, text, tokens, last_token, queue>>
    /\ UNCHANGED <<htmlVars, treeVars, crawlVars>>

\* tokenize, lines 50-51
TokenizeKeyValue ==
    /\ Tokenizing
    /\ tokens[ti + 1].kind \in {"KeyToken", "ValueToken"}
    /\ last_token' = tokens[ti + 1].kind
    /\ ti' = ti + 1
    /\ UNCHANGED <<pcC, orig, text, tokens, spans, queue>>
    /\ UNCHANGED <<htmlVars, treeVars, crawlVars>>

\* tokenize: a token of any other type falls through the if chain
TokenizeOther ==
    /\ Tokenizing
    /\ tokens[ti + 1].kind \notin {"TagToken", "ScalarToken", "KeyToken", "ValueToken"}
    /\ ti' = ti + 1
    /\ UNCHANGED <<pcC, orig, text, tokens, last_token, spans, queue>>
    /\ UNCHANGED <<htmlVars, treeVars, crawlVars>>

\* colorize, line 77: the generator is exhausted, the list is reversed
StartSplicing ==
    /\ pcC = "tokenize"
    /\ ti = Len(tokens)
    /\ queue' = reversed(spans)
    /\ pcC' = "splice"
    /\ UNCHANGED <<orig, text, tokens, ti, last_token, spans>>
    /\ UNCHANGED <<htmlVars, treeVars, crawlVars>>

\* colorize, lines 77-82: one turn of the loop
Splice ==
    /\ pcC = "splice"
    /\ queue # <<>>
    /\ text' = splice(text, Head(queue))
    /\ queue' = Tail(queue)
    /\ UNCHANGED <<pcC, orig, tokens, ti, last_token, spans>>
    /\ UNCHANGED <<htmlVars, treeVars, crawlVars>>

\* colorize, line 84
Return ==
    /\ pcC = "splice"
    /\ queue = <<>>
    /\ pcC' = "done"
    /\ UNCHANGED <<orig, text, tokens, ti, last_token, spans, queue>>
    /\ UNCHANGED <<htmlVars, treeVars, crawlVars>>

Called_KeyFirst ==
    /\ pcC = "tokenize"
    /\ orig \in Texts
    /\ text = orig
    /\ ti = 0
    /\ last_token = "KeyToken"
    /\ spans = <<>>
    /\ queue = <<>>

\* colorize(text) has been called; tokenize starts with last_token a ValueToken
Called ==
    /\ pcC = "tokenize"
    /\ orig \in Texts
    /\ text = orig
    /\ ti = 0
    /\ last_token = "ValueToken"
    /\ spans = <<>>
    /\ queue = <<>>

InitColorize ==
    /\ strict = TRUE /\ InitHtml /\ IdleTree /\ IdleCrawl
    /\ Called
    /\ tokens \in Scans(Len(orig))

InitAnyOrder ==
    /\ strict = TRUE /\ InitHtml /\ IdleTree /\ IdleCrawl
    /\ Called
    /\ tokens \in ScansAnyOrder(Len(orig))

NextColorize ==
    \/ TokenizeTag
    \/ TokenizeScalar
    \/ TokenizeKeyValue
    \/ TokenizeOther
    \/ StartSplicing
    \/ Splice
    \/ Return

SpecColorize == InitColorize /\ [][NextColorize]_vars

SpecAnyOrder == InitAnyOrder /\ [][NextColorize]_vars

(***************************************************************************)
(* yaml_tree.py                                                            *)
(*                                                                         *)
(* A node of yaml.compose: a ScalarNode with a tag and a text, a           *)
(* SequenceNode with its children, a MappingNode with its (key, value)     *)
(* pairs.  A tag is a string: its atoms are the prefix and the suffix that *)
(* names the type.  node.value holds a text, a list of nodes or a list of  *)
(* pairs according to the class of the node; here it is one field for each *)
(* of the three (value, items, pairs), the other two empty.                *)
(***************************************************************************)
ScalarNode(tag, value) ==
    [kind |-> "scalar", tag |-> tag, value |-> value, items |-> <<>>, pairs |-> <<>>]
SequenceNode(value) ==
    [kind |-> "sequence", tag |-> <<"tag:yaml.org,2002", ":seq">>,
     value |-> <<>>, items |-> value, pairs |-> <<>>]
MappingNode(value) ==
    [kind |-> "mapping", tag |-> <<"tag:yaml.org,2002", ":map">>,
     value |-> <<>>, items |-> <<>>, pairs |-> value]

\* Python's s.endswith(suffix)
endswith(s, suffix) ==
    /\ Len(s) >= Len(suffix)
    /\ SubSeq(s, Len(s) - Len(suffix) + 1, Len(s)) = suffix

\* Python's x in s, for a character x
contains(s, x) == \E i \in DOMAIN s : s[i] = x

\* Python's sep.join(l) for a list of strings
RECURSIVE join(_, _)
join(sep, l) ==
    IF l = <<>> THEN <<>>
    ELSE IF Len(l) = 1 THEN l[1]
    ELSE l[1] \o sep \o join(sep, Tail(l))

\* the line break and indentation inside the literals of html_list and html_map
NL == "\n    "

html_element_MultilineFirst(n) ==
    IF contains(n[2], "\n")
    THEN <<"<div class=\"multiline\">">> \o n[2] \o <<"</div>">>
    ELSE IF endswith(n[1], <<":binary">>)
         THEN <<"<img src=\"data:image/png;base64, ">> \o n[2] \o <<"\" />">>
         ELSE <<"<span>">> \o n[2] \o <<"</span>">>

\* html_element(node), node being the list [tag, value]
html_element(n) ==
    IF endswith(n[1], <<":binary">>)
    THEN <<"<img src=\"data:image/png;base64, ">> \o n[2] \o <<"\" />">>
    ELSE IF contains(n[2], "\n")
         THEN <<"<div class=\"multiline\">">> \o n[2] \o <<"</div>">>
         ELSE <<"<span>">> \o n[2] \o <<"</span>">>

RECURSIVE visit(_), html_list(_), html_map(_), html_map_TestsKey(_)

html_list(n) ==
    <<"<ul class=\"sequence\">", NL>>
    \o join(<<"\n">>, [i \in 1..Len(n.items) |->
                          <<"<li>">> \o visit(n.items[i]) \o <<"</li>">>])
    \o <<NL, "</ul>">>

html_map_TestsKey(n) ==
    <<"<ul>", NL>>
    \o join(<<"\n">>, [i \in 1..Len(n.pairs) |->
          LET key == n.pairs[i][1]
              value == n.pairs[i][2]
          IN  IF key.kind = "scalar"
              THEN <<"<li>", NL, "<span class=\"key\">">> \o visit(key)
                   \o <<":</span>", " ">> \o visit(value) \o <<NL, "</li>">>
              ELSE <<"<li>", NL, "<details>", NL, "<summary class=\"key\">">>
                   \o visit(key) \o <<"</summary>", " ">> \o visit(value)
                   \o <<NL, "</details>", NL, "</li>">>])
    \o <<NL, "</ul>">>

html_map(n) ==
    <<"<ul>", NL>>
    \o join(<<"\n">>, [i \in 1..Len(n.pairs) |->
          LET key == n.pairs[i][1]
              value == n.pairs[i][2]
          IN  IF value.kind = "scalar"
              THEN <<"<li>", NL, "<span class=\"key\">">> \o visit(key)
                   \o <<":</span>", " ">> \o visit(value) \o <<NL, "</li>">>
              ELSE <<"<li>", NL, "<details>", NL, "<summary class=\"key\">">>
                   \o visit(key) \o <<"</summary>", " ">> \o visit(value)
                   \o <<NL, "</details>", NL, "</li>">>])
    \o <<NL, "</ul>">>

visit(n) ==
    CASE n.kind = "scalar" -> html_element(<<n.tag, n.value>>)
      [] n.kind = "sequence" -> html_list(n)
      [] n.kind = "mapping" -> html_map(n)

(***************************************************************************)
(* The trees yaml.compose hands to visit: a scalar, a sequence of up to    *)
(* MaxChildren items, or a mapping of up to MaxChildren pairs; the items   *)
(* and values are scalars and small containers, the keys a scalar or a     *)
(* sequence.                                                               *)
(***************************************************************************)
NodeTags == {<<"tag:yaml.org,2002", ":str">>, <<"tag:yaml.org,2002", ":binary">>}
NodeTexts == {<<"a">>, <<"a", "\n", "b">>}
ScalarNodes == {ScalarNode(t, v) : t \in NodeTags, v \in NodeTexts}

Plain == ScalarNode(<<"tag:yaml.org,2002", ":str">>, <<"a">>)

ChildNodes ==
    ScalarNodes \cup
    {SequenceNode(<<>>), SequenceNode(<<Plain>>),
     MappingNode(<<>>), MappingNode(<<<<Plain, Plain>>>>)}

KeyNodes == {Plain, SequenceNode(<<Plain>>)}

ListsOf(S) == UNION {[1..k -> S] : k \in 0..MaxChildren}

RootNodes ==
    ScalarNodes
    \cup {SequenceNode(l) : l \in ListsOf(ChildNodes)}
    \cup {MappingNode(l) : l \in ListsOf(KeyNodes \X ChildNodes)}

\* parse, line 128: yaml.compose has returned the root node
Composed == pcT = "composed" /\ node \in RootNodes /\ rendered = <<>>

\* visit, lines 100-101
VisitScalar ==
    /\ pcT = "composed"
    /\ node.kind = "scalar"
    /\ rendered' = visit(node)
    /\ pcT' = "done"
    /\ UNCHANGED node
    /\ UNCHANGED <<htmlVars, colorVars, crawlVars>>

\* visit, lines 102-103
VisitSequence ==
    /\ pcT = "composed"
    /\ node.kind = "sequence"
    /\ rendered' = visit(node)
    /\ pcT' = "done"
    /\ UNCHANGED node
    /\ UNCHANGED <<htmlVars, colorVars, crawlVars>>

\* visit, lines 104-105
VisitMapping ==
    /\ pcT = "composed"
    /\ node.kind = "mapping"
    /\ rendered' = visit(node)
    /\ pcT' = "done"
    /\ UNCHANGED node
    /\ UNCHANGED <<htmlVars, colorVars, crawlVars>>

InitTree == strict = TRUE /\ InitHtml /\ IdleColor /\ IdleCrawl /\ Composed

NextTree == VisitScalar \/ VisitSequence \/ VisitMapping

SpecTree == InitTree /\ [][NextTree]_vars

(***************************************************************************)
(* url_collector.py                                                        *)
(*                                                                         *)
(* main writes the header line and runs bulk_crawl_and_write, which        *)
(* gathers one write_one task per URL.  A task runs from one await to the  *)
(* next in one step: the request, the opening of the output file, each     *)
(* write of a row, the closing.  A string is the sequence of its atoms, a  *)
(* file the sequence of its lines.                                         *)
(***************************************************************************)
Urls == {"http://u1", "http://u2"}

\* the href values of a page: two spellings of one target, another target,
\* and one that urljoin rejects with ValueError
Hrefs == {"a", "./a", "b", "http://["}

Pages == UNION {[1..k -> Hrefs] : k \in 0..MaxLinks}

\* main, line 162
Header == <<"source_url", "\t", "parsed_url", "\n">>

\* write_one, line 116: f"{url}\t{p}\n"
Row(url, p) == <<url, "\t">> \o p \o <<"\n">>

\* urljoin(url, link) raises ValueError
Rejected(link) == link = "http://["

\* urljoin(url, link) for the links it accepts
urljoin(url, link) ==
    CASE link \in {"a", "./a"} -> <<url, "/", "a">>
      [] link = "b" -> <<url, "/", "b">>

\* the order of Python's str comparison on the atoms of the links
Chars == <<"/", "a", "b", "http://u1", "http://u2">>
ord(c) == CHOOSE i \in DOMAIN Chars : Chars[i] = c

RECURSIVE less(_, _)
less(x, y) ==
    IF x = <<>> THEN y # <<>>
    ELSE IF y = <<>> THEN FALSE
    ELSE IF Head(x) = Head(y) THEN less(Tail(x), Tail(y))
    ELSE ord(Head(x)) < ord(Head(y))

\* sorted(list(found))
RECURSIVE sorted(_)
sorted(S) ==
    IF S = {} THEN <<>>
    ELSE LET m == CHOOSE x \in S : \A y \in S : x = y \/ less(x, y)
         IN  <<m>> \o sorted(S \ {m})

\* parse, lines 84-91: the loop over the links, found and abslink being the
\* locals of parse; abslink is <<>> while it is unbound, and found.add(abslink)
\* then raises UnboundLocalError
RECURSIVE links_loop(_, _, _, _)
links_loop(url, links, found, abslink) ==
    IF links = <<>> THEN [raised |-> FALSE, found |-> found]
    ELSE LET a == IF Rejected(Head(links)) THEN abslink ELSE urljoin(url, Head(links))
         IN  IF a = <<>>
             THEN [raised |-> TRUE, found |-> found]
             ELSE links_loop(url, Tail(links), found \cup {a}, a)

\* parse, lines 84-93, after fetch_html has returned the page with these hrefs
parse(url, hrefs) ==
    LET l == links_loop(url, hrefs, {}, <<>>)
    IN  [raised |-> l.raised, res |-> IF l.raised THEN <<>> ELSE sorted(l.found)]

Pending == [status |-> "pending", hrefs |-> <<>>]

\* the tasks may run: gather is awaited, or its exception is on its way out
\* of bulk_crawl_and_write and asyncio.run has not yet cancelled the task
Scheduled(u) == main \in {"gather", "raised"} /\ u \in DOMAIN task

\* main, lines 158-164: the URLs are read, the header is written, the tasks
\* are created
WriteHeader ==
    /\ main = "start"
    /\ file' = <<Header>>
    /\ main' = "gather"
    /\ UNCHANGED <<task, page, res>>
    /\ UNCHANGED <<htmlVars, colorVars, treeVars>>

\* write_one, lines 109-112, parse with fetch_html returning a page
Fetched(u) ==
    /\ Scheduled(u)
    /\ task[u] = "fetch"
    /\ \E hrefs \in Pages :
          /\ page' = [page EXCEPT ![u] = [status |-> "ok", hrefs |-> hrefs]]
          /\ LET r == parse(u, hrefs)
             IN  /\ res' = [res EXCEPT ![u] = r.res]
                 /\ task' = [task EXCEPT ![u] =
                                IF r.raised THEN "raised"
                                ELSE IF r.res = <<>> THEN "done" ELSE "open"]
    /\ UNCHANGED <<main, file>>
    /\ UNCHANGED <<htmlVars, colorVars, treeVars>>

\* parse, lines 66-77: the request or raise_for_status raises a ClientError
FetchClientError(u) ==
    /\ Scheduled(u)
    /\ task[u] = "fetch"
    /\ page' = [page EXCEPT ![u] = [status |-> "ClientError", hrefs |-> <<>>]]
    /\ res' = [res EXCEPT ![u] = <<>>]
    /\ task' = [task EXCEPT ![u] = "done"]
    /\ UNCHANGED <<main, file>>
    /\ UNCHANGED <<htmlVars, colorVars, treeVars>>

\* parse, lines 78-82: fetch_html raises any other Exception
FetchException(u) ==
    /\ Scheduled(u)
    /\ task[u] = "fetch"
    /\ page' = [page EXCEPT ![u] = [status |-> "Exception", hrefs |-> <<>>]]
    /\ res' = [res EXCEPT ![u] = <<>>]
    /\ task' = [task EXCEPT ![u] = "done"]
    /\ UNCHANGED <<main, file>>
    /\ UNCHANGED <<htmlVars, colorVars, treeVars>>

\* write_one, line 114: aiofiles.open(file, "a")
Open(u) ==
    /\ Scheduled(u)
    /\ task[u] = "open"
    /\ task' = [task EXCEPT ![u] = "write"]
    /\ UNCHANGED <<main, page, res, file>>
    /\ UNCHANGED <<htmlVars, colorVars, treeVars>>

\* write_one, lines 115-116: one turn of the loop
Write(u) ==
    /\ Scheduled(u)
    /\ task[u] = "write"
    /\ res[u] # <<>>
    /\ file' = Append(file, Row(u, Head(res[u])))
    /\ res' = [res EXCEPT ![u] = Tail(@)]
    /\ UNCHANGED <<main, task, page>>
    /\ UNCHANGED <<htmlVars, colorVars, treeVars>>

\* write_one, lines 114-117: the loop is over, the file is closed
Close(u) ==
    /\ Scheduled(u)
    /\ task[u] = "write"
    /\ res[u] = <<>>
    /\ task' = [task EXCEPT ![u] = "done"]
    /\ UNCHANGED <<main, page, res, file>>
    /\ UNCHANGED <<htmlVars, colorVars, treeVars>>

\* bulk_crawl_and_write, line 140: every task has returned
GatherReturns ==
    /\ main = "gather"
    /\ \A u \in DOMAIN task : task[u] = "done"
    /\ main' = "done"
    /\ UNCHANGED <<task, page, res, file>>
    /\ UNCHANGED <<htmlVars, colorVars, treeVars>>

\* bulk_crawl_and_write, line 140: gather, called without return_exceptions,
\* passes on the exception of a task
GatherRaises ==
    /\ main = "gather"
    /\ \E u \in DOMAIN task : task[u] = "raised"
    /\ main' = "raised"
    /\ UNCHANGED <<task, page, res, file>>
    /\ UNCHANGED <<htmlVars, colorVars, treeVars>>

\* main, line 164: asyncio.run, its coroutine having raised, cancels a task
\* that has not finished
Cancel(u) ==
    /\ main = "raised"
    /\ u \in DOMAIN task
    /\ task[u] \in {"fetch", "open", "write"}
    /\ task' = [task EXCEPT ![u] = "cancelled"]
    /\ UNCHANGED <<main, page, res, file>>
    /\ UNCHANGED <<htmlVars, colorVars, treeVars>>

\* main, line 164: asyncio.run raises the exception once no task is left
Exit ==
    /\ main = "raised"
    /\ \A u \in DOMAIN task : task[u] \in {"done", "raised", "cancelled"}
    /\ main' = "exited"
    /\ UNCHANGED <<task, page, res, file>>
    /\ UNCHANGED <<htmlVars, colorVars, treeVars>>

\* main, lines 158-159: the set of URLs has been read from the input file
InitCrawl ==
    /\ strict = TRUE /\ InitHtml /\ IdleColor /\ IdleTree
    /\ main = "start"
    /\ \E urls \in SUBSET Urls :
          /\ task = [u \in urls |-> "fetch"]
          /\ page = [u \in urls |-> Pending]
          /\ res = [u \in urls |-> <<>>]
    /\ file = <<>>

NextCrawl ==
    \/ WriteHeader
    \/ \E u \in Urls : Fetched(u)
    \/ \E u \in Urls : FetchClientError(u)
    \/ \E u \in Urls : FetchException(u)
    \/ \E u \in Urls : Open(u)
    \/ \E u \in Urls : Write(u)
    \/ \E u \in Urls : Close(u)
    \/ GatherReturns
    \/ GatherRaises
    \/ \E u \in Urls : Cancel(u)
    \/ Exit

SpecCrawl == InitCrawl /\ [][NextCrawl]_vars

(***************************************************************************)
(* Reading markup back.                                                    *)
(***************************************************************************)
ContainerOpen == {"<ul>", "<dl>"}
ContainerClose == {"</ul>", "</dl>"}
ChildOpen == {"<li>", "<dt>", "<dd>"}
ChildClose == {"</li>", "</dt>", "</dd>"}

Opener(t) ==
    CASE t = "</ul>" -> "<ul>"
      [] t = "</dl>" -> "<dl>"
      [] t = "</li>" -> "<li>"
      [] t = "</dt>" -> "<dt>"
      [] t = "</dd>" -> "<dd>"

Closer(t) ==
    CASE t = "<ul>" -> "</ul>"
      [] t = "<dl>" -> "</dl>"
      [] t = "<li>" -> "</li>"
      [] t = "<dt>" -> "</dt>"
      [] t = "<dd>" -> "</dd>"

Only(s, S) == SelectSeq(s, LAMBDA a : a \in S)
Count(s, a) == Len(SelectSeq(s, LAMBDA x : x = a))
StripEsc(s) == SelectSeq(s, LAMBDA a : a \notin EscAtoms)

\* The opening tags still unclosed after the tags ts, read left to right from
\* the unclosed tags st; <<"mismatch">> when a closing tag does not close the
\* most recently opened unclosed tag.
RECURSIVE Unclosed(_, _)
Unclosed(ts, st) ==
    IF ts = <<>> THEN st
    ELSE IF Head(ts) \in ContainerOpen \cup ChildOpen
         THEN Unclosed(Tail(ts), Append(st, Head(ts)))
         ELSE IF st # <<>> /\ Last(st) = Opener(Head(ts))
              THEN Unclosed(Tail(ts), Front(st))
              ELSE <<"mismatch">>

Containers(s) == Only(s, ContainerOpen \cup ContainerClose)

\* the opening markers of the containers the event source has open
NestingMarkers == [i \in 1..Len(nesting) |-> IF nesting[i].kind = "seq" THEN "<ul>" ELSE "<dl>"]

\* the root node of the current document is complete
RootComplete == pstate = "doc" /\ events # <<>> /\ nesting = <<>>

(***************************************************************************)
(* C1  Container markers are balanced and properly matched: after every    *)
(* prefix of a well-nested event sequence the unclosed <ul>/<dl> of the    *)
(* output are exactly the open containers, every </ul> and </dl> closes    *)
(* the most recently opened unclosed marker of its kind, and in a          *)
(* complete document (and in every yielded string) none is left unclosed   *)
(* and the opening markers are as many as the closing ones.                *)
(***************************************************************************)
C1_ContainersBalanced ==
    /\ Unclosed(Containers(html(builder)), <<>>) = NestingMarkers
    /\ RootComplete =>
          /\ Unclosed(Containers(html(builder)), <<>>) = <<>>
          /\ Len(Only(html(builder), ContainerOpen)) = Len(Only(html(builder), ContainerClose))
    /\ \A i \in DOMAIN yielded :
          /\ Unclosed(Containers(yielded[i]), <<>>) = <<>>
          /\ Len(Only(yielded[i], ContainerOpen)) = Len(Only(yielded[i], ContainerClose))

\* a complete document with a sequence nested in a mapping nested in a sequence
C1_Witness ==
    /\ RootComplete
    /\ Containers(html(builder)) = <<"<ul>", "<dl>", "<ul>", "</ul>", "</dl>", "</ul>">>

(***************************************************************************)
(* C2  Mapping alternation: the entering tag of the 1st, 3rd, 5th... child *)
(* of a mapping is <dt> and of the 2nd, 4th, 6th... child <dd>, whatever   *)
(* the children are.  Stated of the step that processes the open event of  *)
(* a child of a mapping: the first piece it appends is that tag.           *)
(***************************************************************************)
NodeStep == Len(events') = Len(events) + 1

C2_MappingAlternation ==
    [][ ( /\ NodeStep
          /\ Last(events').type \in OPEN_TAG_EVENTS
          /\ nesting # <<>>
          /\ Last(nesting).kind = "map" )
        => /\ Len(_html') > Len(_html)
           /\ _html'[Len(_html) + 1] =
                 _color(IF Last(nesting).n % 2 = 0 THEN "<dt>" ELSE "<dd>") ]_vars

(***************************************************************************)
(* C3  The leaving-child tag of every element is the counterpart of the    *)
(* entering-child tag emitted when it opened; the root gets neither; and   *)
(* so every </li>, </dt>, </dd> of the output closes an earlier, still     *)
(* unclosed opening tag of its kind (in every prefix of the output there   *)
(* are at most as many closing as opening tags of each kind).              *)
(***************************************************************************)
\* the child tags among the pieces the step appended
AppendedChildTags ==
    Only(Flatten(SubSeq(_html', Len(_html) + 1, Len(_html'))), ChildOpen \cup ChildClose)

ClosesEarlier(s) ==
    \A k \in 0..Len(s) : \A t \in ChildOpen :
        Count(SubSeq(s, 1, k), Closer(t)) <= Count(SubSeq(s, 1, k), t)

C3_LeavingMatchesEntering ==
    [][ NodeStep =>
          /\ Last(events').type = "ScalarEvent" =>
                \/ _context = <<>> /\ AppendedChildTags = <<>>
                \/ /\ _context # <<>>
                   /\ Len(AppendedChildTags) = 2
                   /\ AppendedChildTags[1] \in ChildOpen
                   /\ AppendedChildTags[2] = Closer(AppendedChildTags[1])
          /\ Last(events').type \in {"SequenceStartEvent", "MappingStartEvent"} =>
                (_context = <<>> => AppendedChildTags = <<>>)
          /\ Last(events').type \in {"SequenceEndEvent", "MappingEndEvent"} =>
                AppendedChildTags =
                    [i \in 1..Len(Last(nesting).enter) |-> Closer(Last(nesting).enter[i])]
          /\ ClosesEarlier(Flatten(_html')) ]_vars

(***************************************************************************)
(* C4  A root mapping with scalar children k1, v1, ..., kn, vn renders as  *)
(* <dl>, then <dt>ki</dt><dd>vi</dd> for each pair in order, then </dl>,   *)
(* and nothing else (escape sequences of the colouring aside).             *)
(***************************************************************************)
RECURSIVE Pairs(_)
Pairs(evs) ==
    IF Len(evs) < 2 THEN <<>>
    ELSE <<"<dt>">> \o evs[1].value \o <<"</dt>">>
         \o <<"<dd>">> \o evs[2].value \o <<"</dd>">>
         \o Pairs(SubSeq(evs, 3, Len(evs)))

\* the events are those of a mapping with scalar children only, at least a pair
ScalarMapping(evs) ==
    /\ Len(evs) >= 4
    /\ evs[1].type = "MappingStartEvent"
    /\ evs[Len(evs)].type = "MappingEndEvent"
    /\ \A i \in 2..(Len(evs) - 1) : evs[i].type = "ScalarEvent"

C4_ScalarMappingMarkup ==
    (RootComplete /\ ScalarMapping(events)) =>
        StripEsc(html(builder)) =
            <<"<dl>">> \o Pairs(SubSeq(events, 2, Len(events) - 1)) \o <<"</dl>">>

(***************************************************************************)
(* C5  The context stack is empty before the first event of a document,    *)
(* after every prefix of a well-nested event sequence it has one frame per *)
(* open container, "list" for a sequence and an integer for a mapping, in  *)
(* nesting order, and it is empty after the last event of the document.    *)
(***************************************************************************)
C5_ContextStack ==
    /\ Len(_context) = Len(nesting)
    /\ \A i \in 1..Len(nesting) :
          _context[i].tag = (IF nesting[i].kind = "seq" THEN "list" ELSE "int")
    /\ (pstate = "doc" /\ events = <<>>) => _context = <<>>
    /\ RootComplete => _context = <<>>
    /\ pstate \in {"init", "stream", "end"} => _context = <<>>

\* a sequence open inside a mapping, after a finished document
C5_Witness ==
    /\ Len(docs) = 1
    /\ Len(_context) = 2
    /\ _context[1].tag = "int"
    /\ _context[2].tag = "list"

(***************************************************************************)
(* C6  For n documents yaml2html yields n strings in source order, the     *)
(* i-th being the markup of the events of the i-th document alone: what a  *)
(* fresh builder makes of them; and the builder in use holds what a fresh  *)
(* builder makes of the events of the current document alone.              *)
(***************************************************************************)
C6_OneStringPerDocument ==
    /\ Len(yielded) = Len(docs)
    /\ \A i \in DOMAIN docs : yielded[i] = html(processAll(HTMLBuilder, docs[i]))
    /\ builder = processAll(HTMLBuilder, events)

\* two documents of different markup have been yielded
C6_Witness ==
    /\ Len(yielded) = 2
    /\ yielded[1] # yielded[2]
    /\ yielded[2] # <<>>

(***************************************************************************)
(* The annotation of a text built in one forward pass over the original    *)
(* text: at each offset the reset of a span that ends there, the codes of  *)
(* a span that starts there, then the character.                           *)
(***************************************************************************)
SpanSet(sp) == {sp[i] : i \in DOMAIN sp}

Codes(token) == Front(colored(<<>>, colors[token], attrsOf(token)))

RECURSIVE Build(_, _, _)
Build(o, sp, p) ==
    (IF \E s \in SpanSet(sp) : s.end = p THEN <<RESET>> ELSE <<>>)
    \o (IF \E s \in SpanSet(sp) : s.start = p
        THEN Codes((CHOOSE s \in SpanSet(sp) : s.start = p).token)
        ELSE <<>>)
    \o (IF p < Len(o) THEN <<o[p + 1]>> \o Build(o, sp, p + 1) ELSE <<>>)

Annotated(o, sp) == Build(o, sp, 0)

(***************************************************************************)
(* C7  Round trip: deleting every inserted marker from the result of       *)
(* colorize (and from the working text after every splice) gives the       *)
(* original text back, character for character.                            *)
(***************************************************************************)
C7_RoundTrip == pcC \in {"splice", "done"} => StripEsc(text) = orig

\* colorize has returned a text with two spans coloured
C7_Witness == pcC = "done" /\ Len(spans) >= 2 /\ text # orig

(***************************************************************************)
(* C8  Offset stability: when a span (start, end) is about to be spliced,  *)
(* the first end characters of the working text are still the first end    *)
(* characters of the original text; so the result has the markers around   *)
(* exactly the original text[start:end] of every span, also of touching    *)
(* spans, where the reset of the one and the codes of the next stand once  *)
(* between the two characters.                                             *)
(***************************************************************************)
C8_OffsetStable ==
    /\ (pcC = "splice" /\ queue # <<>>) =>
          Slice(text, 0, Head(queue).end) = Slice(orig, 0, Head(queue).end)
    /\ pcC = "done" => text = Annotated(orig, spans)

\* colorize has returned a text with two touching spans
C8_Witness ==
    /\ pcC = "done"
    /\ \E i \in 1..(Len(spans) - 1) : spans[i].end = spans[i + 1].start

C10_UnmatchedCloseRaises ==
    [][ ( /\ NodeStep
          /\ \/ /\ Last(events').type = "SequenceEndEvent"
                /\ (_context = <<>> \/ Last(_context).tag # "list")
             \/ /\ Last(events').type = "MappingEndEvent"
                /\ (_context = <<>> \/ Last(_context).tag # "int") )
        => raised' ]_vars
(***************************************************************************)
(* C11 An empty sequence or mapping (an open event immediately followed by *)
(* its close event), at the root or nested, renders as the container's     *)
(* opening marker immediately followed by its closing marker: no child tag *)
(* and no text stands between them.                                        *)
(***************************************************************************)
JustClosedEmpty(open, close) ==
    /\ Len(events) >= 2
    /\ events[Len(events) - 1].type = open
    /\ Last(events).type = close

\* the last k atoms of s (all of s when it is shorter)
LastAtoms(s, k) == SubSeq(s, IF Len(s) > k THEN Len(s) - k + 1 ELSE 1, Len(s))

C11_EmptyContainerHasNoChildren ==
    /\ JustClosedEmpty("SequenceStartEvent", "SequenceEndEvent") =>
          LastAtoms(StripEsc(html(builder)), 2) = <<"<ul>", "</ul>">>
    /\ JustClosedEmpty("MappingStartEvent", "MappingEndEvent") =>
          LastAtoms(StripEsc(html(builder)), 2) = <<"<dl>", "</dl>">>
(***************************************************************************)
(* C12 Token classification: of the tokens tokenize has consumed, every    *)
(* TagToken and every ScalarToken has yielded one span, in source order,   *)
(* with the token's own offsets; a TagToken's span carries the tag class,  *)
(* a ScalarToken's span the class of the latest KeyToken or ValueToken     *)
(* before it; KeyToken and ValueToken yield no span, and the carried class *)
(* is that of the latest of them, whatever TagTokens came since.           *)
(***************************************************************************)
Indices(l) == [i \in 1..Len(l) |-> i]

\* the positions of the tokens of l that cover a span, in order
SpanIdx(l) == SelectSeq(Indices(l), LAMBDA i : l[i].kind \in SpanKinds)

\* the positions before i of the KeyTokens and ValueTokens of l
MarkersBefore(l, i) == {k \in 1..(i - 1) : l[k].kind \in {"KeyToken", "ValueToken"}}

Latest(S) == CHOOSE x \in S : \A y \in S : y <= x

C12_TokenClassification ==
    pcC \in {"tokenize", "splice", "done"} =>
        LET seen == SubSeq(tokens, 1, ti)
            idx == SpanIdx(seen)
        IN  /\ Len(spans) = Len(idx)
            /\ \A j \in 1..Len(idx) :
                  /\ spans[j].start = tokens[idx[j]].start
                  /\ spans[j].end = tokens[idx[j]].end
                  /\ tokens[idx[j]].kind = "TagToken" => spans[j].token = "TagToken"
                  /\ (tokens[idx[j]].kind = "ScalarToken"
                         /\ MarkersBefore(tokens, idx[j]) # {})
                       => spans[j].token = tokens[Latest(MarkersBefore(tokens, idx[j]))].kind
            /\ MarkersBefore(tokens, ti + 1) # {}
                  => last_token = tokens[Latest(MarkersBefore(tokens, ti + 1))].kind

\* a scalar after a KeyToken and a TagToken has got the key class
C12_Witness ==
    /\ pcC = "done"
    /\ \E j \in 2..Len(spans) : spans[j].token = "KeyToken" /\ spans[j - 1].token = "TagToken"
(***************************************************************************)
(* C13 An event whose kind is none of the kinds the renderer knows         *)
(* (scalar, sequence start and end, mapping start and end, document end)   *)
(* is a fatal error: process raises on it.                                 *)
(***************************************************************************)
KnownEvents == OPEN_TAG_EVENTS \cup CLOSE_TAG_EVENTS \cup {"DocumentEndEvent"}

C13_UnknownEventRaises ==
    [][ (NodeStep /\ Last(events').type \notin KnownEvents) => raised' ]_vars
(***************************************************************************)
(* C14 For every (key, value) pair of a mapping node, in order, html_map   *)
(* renders one <li>: the key in a span of class key followed by the        *)
(* rendered value, with no <details>, exactly when the value is a scalar,  *)
(* and otherwise a <details> whose <summary> is the key and which holds    *)
(* the rendered value.  The <li> entries of the mapping are as many as its *)
(* pairs.                                                                  *)
(***************************************************************************)
\* how many lists are open at atom k of the markup s
UlDepth(s, k) ==
    Len(Only(SubSeq(s, 1, k), {"<ul>", "<ul class=\"sequence\">"}))
    - Count(SubSeq(s, 1, k), "</ul>")

\* the positions of the atoms of s that are tag and belong to the outermost list
Entries(s, tag) ==
    SelectSeq(Indices(s), LAMBDA k : s[k] = tag /\ UlDepth(s, k) = 1)

Inline(key, value) ==
    <<"<li>", NL, "<span class=\"key\">">> \o key \o <<":</span>", " ">> \o value
    \o <<NL, "</li>">>

Disclosure(key, value) ==
    <<"<li>", NL, "<details>", NL, "<summary class=\"key\">">> \o key
    \o <<"</summary>", " ">> \o value \o <<NL, "</details>", NL, "</li>">>

C14_MappingPolicy ==
    (pcT = "done" /\ node.kind = "mapping") =>
        LET open == Entries(rendered, "<li>")
            close == Entries(rendered, "</li>")
        IN  /\ Len(open) = Len(node.pairs)
            /\ Len(close) = Len(node.pairs)
            /\ \A i \in 1..Len(node.pairs) :
                  LET entry == SubSeq(rendered, open[i], close[i])
                      key == visit(node.pairs[i][1])
                      value == visit(node.pairs[i][2])
                  IN  IF node.pairs[i][2].kind = "scalar"
                      THEN entry = Inline(key, value)
                      ELSE entry = Disclosure(key, value)

\* a mapping of a sequence key with a scalar value and a scalar key with a
\* mapping value has been rendered
C14_Witness ==
    /\ pcT = "done"
    /\ node.kind = "mapping"
    /\ Len(node.pairs) = 2
    /\ node.pairs[1][1].kind = "sequence" /\ node.pairs[1][2].kind = "scalar"
    /\ node.pairs[2][1].kind = "scalar" /\ node.pairs[2][2].kind = "mapping"
    /\ Count(rendered, "<details>") = 1

(***************************************************************************)
(* C15 A scalar whose tag ends with ":binary" renders as an image          *)
(* reference; otherwise one whose text has a line break renders in a       *)
(* <div class="multiline">; every other scalar renders in a <span>.  A     *)
(* binary scalar with a line break is the image, never the block.          *)
(***************************************************************************)
C15_ScalarCases ==
    (pcT = "done" /\ node.kind = "scalar") =>
        LET binary == Last(node.tag) = ":binary"
            multiline == \E i \in DOMAIN node.value : node.value[i] = "\n"
        IN  /\ binary =>
                rendered = <<"<img src=\"data:image/png;base64, ">> \o node.value
                           \o <<"\" />">>
            /\ (~binary /\ multiline) =>
                rendered = <<"<div class=\"multiline\">">> \o node.value \o <<"</div>">>
            /\ (~binary /\ ~multiline) =>
                rendered = <<"<span>">> \o node.value \o <<"</span>">>

\* a binary scalar with a line break has been rendered as the image
C15_Witness ==
    /\ pcT = "done"
    /\ node.kind = "scalar"
    /\ Last(node.tag) = ":binary"
    /\ \E i \in DOMAIN node.value : node.value[i] = "\n"
    /\ rendered[1] = "<img src=\"data:image/png;base64, "
(***************************************************************************)
(* C16 The parity counter advances only on close.  The open part of        *)
(* process changes no frame that is on the stack, and the frame it pushes  *)
(* for a mapping starts at 0.  The close part picks the leaving tag from   *)
(* the counter of the top frame as it stands, then adds exactly 1 to that  *)
(* counter, and changes no other frame; a list frame is never changed.     *)
(***************************************************************************)
\* the last tag of the markup pieces l, its color codes taken off
LastTag(l) == Last(StripEsc(Last(l)))

C16_ParityOnlyOnClose ==
    [][ NodeStep =>
          LET e == Last(events')
              o == processOpen(builder, e)
              h == _handle_tag(o, TRUE)
              top == Last(o._context)
          IN  /\ e.type \in OPEN_TAG_EVENTS =>
                    /\ SubSeq(o._context, 1, Len(_context)) = _context
                    /\ e.type = "MappingStartEvent" => Last(o._context) = IntFrame(0)
                    /\ e.type = "SequenceStartEvent" => Last(o._context) = ListFrame
                    /\ e.type \notin CLOSE_TAG_EVENTS => _context' = o._context
              /\ e.type \notin OPEN_TAG_EVENTS => o._context = _context
              /\ (e.type \in CLOSE_TAG_EVENTS /\ o._context # <<>>) =>
                    /\ Front(h._context) = Front(o._context)
                    /\ top.tag = "list" => Last(h._context) = top
                    /\ top.tag = "int" =>
                          /\ Last(h._context) = IntFrame(top.n + 1)
                          /\ LastTag(h._html) = IF top.n % 2 = 0 THEN "</dt>" ELSE "</dd>"
                    /\ _context' = IF e.type = "ScalarEvent"
                                   THEN h._context
                                   ELSE Front(o._context)
                    /\ StripEsc(Flatten(_html'))[Len(StripEsc(Flatten(o._html))) + 1]
                          = LastTag(h._html)
    ]_vars

\* the value of a key of a mapping which is the value of a key has closed
C16_Witness ==
    /\ events # <<>>
    /\ Last(events).type = "ScalarEvent"
    /\ _context = <<IntFrame(1), IntFrame(2)>>
(***************************************************************************)
(* C17 When a container has ended, the context stack is again what it was  *)
(* just before the container's start event: the same frames in the same    *)
(* order with the same counters, the counter of the enclosing mapping      *)
(* among them.                                                             *)
(***************************************************************************)
\* starts less ends among the events evs[i], ..., evs[Len(evs)]
Balance(evs, i) ==
    Len(SelectSeq(SubSeq(evs, i, Len(evs)),
                  LAMBDA e : e.type \in {"SequenceStartEvent", "MappingStartEvent"}))
    - Len(SelectSeq(SubSeq(evs, i, Len(evs)),
                    LAMBDA e : e.type \in {"SequenceEndEvent", "MappingEndEvent"}))

\* the position of the start event that the last event of evs ends
MatchingStart(evs) ==
    Latest({i \in DOMAIN evs : Balance(evs, i) = 0})

C17_SubtreeRestoresStack ==
    (Running /\ events # <<>>
       /\ Last(events).type \in {"SequenceEndEvent", "MappingEndEvent"}) =>
        LET i == MatchingStart(events)
        IN  /\ events[i].type \in {"SequenceStartEvent", "MappingStartEvent"}
            /\ _context = processAll(HTMLBuilder, SubSeq(events, 1, i - 1))._context

\* a sequence that is the value of a key has ended, and the mapping's counter
\* is the 1 it was when the sequence started
C17_Witness ==
    /\ Len(events) >= 4
    /\ events[1].type = "MappingStartEvent"
    /\ events[2].type = "ScalarEvent"
    /\ events[3].type = "SequenceStartEvent"
    /\ Last(events).type = "SequenceEndEvent"
    /\ MatchingStart(events) = 3
    /\ _context = <<IntFrame(1)>>
(***************************************************************************)
(* C18 A ScalarToken that comes before the first KeyToken or ValueToken of *)
(* the text is yielded with the value class, and the result carries the    *)
(* value color, without the key's bold, in front of its first character.   *)
(***************************************************************************)
C18_LeadingScalarsAreValues ==
    \A i \in DOMAIN tokens :
        (tokens[i].kind = "ScalarToken" /\ MarkersBefore(tokens, i) = {}) =>
            /\ (pcC \in {"tokenize", "splice", "done"} /\ i <= ti) =>
                  /\ \E j \in DOMAIN spans :
                        spans[j] = [start |-> tokens[i].start, end |-> tokens[i].end,
                                    token |-> "ValueToken"]
                  /\ \A j \in DOMAIN spans :
                        spans[j].start = tokens[i].start => spans[j].token # "KeyToken"
            /\ pcC = "done" =>
                  \E p \in 1..(Len(text) - 1) :
                      /\ text[p] = COLORS.cyan
                      /\ Len(StripEsc(SubSeq(text, 1, p))) = tokens[i].start
                      /\ text[p + 1] = orig[tokens[i].start + 1]
                      /\ p > 1 => text[p - 1] # ATTRIBUTES.bold

\* the two items of a top-level sequence have been colored
C18_Witness ==
    /\ pcC = "done"
    /\ Len(tokens) >= 2
    /\ tokens[1].kind = "ScalarToken"
    /\ tokens[2].kind = "ScalarToken"
    /\ Count(text, COLORS.cyan) >= 2
(***************************************************************************)
(* C19 Failure isolation in the crawl: when main is over, the file begins  *)
(* with the header line; a URL whose fetch failed has no row; a URL whose  *)
(* fetch succeeded has, in ascending order, one row for each distinct link *)
(* found in its page, whatever the other tasks did and however the tasks   *)
(* interleaved.                                                            *)
(***************************************************************************)
\* the distinct links of a page, joined to the URL of the page
FoundLinks(u, hrefs) ==
    {urljoin(u, hrefs[i]) : i \in {j \in DOMAIN hrefs : ~Rejected(hrefs[j])}}

\* the lines of the file that begin with the URL, in file order
RowsOf(u) == SelectSeq(Tail(file), LAMBDA r : r[1] = u)

C19_FailureIsolation ==
    main \in {"done", "exited"} =>
        /\ file # <<>>
        /\ file[1] = Header
        /\ \A u \in DOMAIN task :
              RowsOf(u) =
                 IF page[u].status = "ok"
                 THEN LET links == sorted(FoundLinks(u, page[u].hrefs))
                      IN  [i \in DOMAIN links |-> Row(u, links[i])]
                 ELSE <<>>
====
